---- MODULE Spec2Model ----
(***************************************************************************)
(* Model of SmplParser: the generic backtracking Scanner<T> of             *)
(* src/src/scanner.rs and the character tokenizer of src/src/token.rs.     *)
(*                                                                         *)
(* Spec     : a scanner driven by arbitrary predicates and matchers: the   *)
(*            queue-based Scanner<T> of scanner.rs or the cursor-based     *)
(*            TokenScanner of lib.rs (impl says which).  The scan loop is  *)
(*            modelled one iteration per step; the matcher's answer to     *)
(*            each prefix is an arbitrary action.                          *)
(* SpecTok  : tokenize() over a Scanner<char>, one get_tok matcher per     *)
(*            step, with the matchers of token.rs.                         *)
(*                                                                         *)
(* Option<X> is a sequence of length 0 (None) or 1 (Some).                 *)
(* Result<X, &str> is a record [ok, val, err].                             *)
(***************************************************************************)
EXTENDS Integers, Sequences, FiniteSets, TLC

\* Longest input given to Scanner::new in Spec.
MaxLen == 3

\* Element type T and matcher result type U of the generic scanner.
Elems == {"a", "b"}
Vals == {"u", "v"}

VARIABLES
    impl,       \* "Scanner" (scanner.rs) or "TokenScanner" (lib.rs)
    input,      \* the sequence given to new (never changes)
    toks,       \* Scanner::toks, the queue of remaining elements;
                \* TokenScanner::toks, the whole vector
    cursor,     \* TokenScanner::cursor (0 in a Scanner)
    pc,         \* where the program is: "idle", "scan", "collect", ...
    op,         \* the operation that is running or that returned last
    sequence,   \* scan's local `sequence`
    request,    \* scan's local `request` (Option<U>)
    require,    \* scan's local `require`
    result,     \* what the last operation returned (at pc = "panic": Err of
                \* the panic's message)
    before,     \* the queue when the running (or just returned) scan was called
    hist,       \* the matcher's answers in that scan call, with the prefix shown
    iters,      \* loop iterations of that scan call so far
    res,        \* collect's local `res`
    collecting, \* TRUE while scan runs on behalf of collect
    scanret,    \* Some(r) in the state right after a scan call returned r, else None
    frames,     \* tokenizer: the token lists of the open tokenize_scanner calls
    first,      \* tokenizer: Some(the tokens of the first tokenize call) once a
                \* second call runs on its identifiers joined by spaces, else None
    arg,        \* the argument of the primitive that returned last: pred is
                \* Some(its predicate), fn is Some(its function), else None
    tokscan     \* paired run: the locals and the return of TokenScanner::scan
                \* called next to Scanner::scan, else None

vars == <<impl, input, toks, cursor, pc, op, sequence, request, require, result, before,
          hist, iters, res, collecting, scanret, frames, first, arg,
          tokscan>>

----------------------------------------------------------------------------
(* Values *)

None == << >>
Some(v) == <<v>>

\* The argument of an operation: none, a predicate, a function.
NoArg == [pred |-> None, fn |-> None]
PredArg(p) == [pred |-> Some(p), fn |-> None]
FnArg(f) == [pred |-> None, fn |-> Some(f)]

Ok(v) == [ok |-> TRUE, val |-> v, err |-> ""]
Err(e) == [ok |-> FALSE, val |-> << >>, err |-> e]

\* ScannerAction<U>
Return(v) == [kind |-> "Return", val |-> v]
Request(v) == [kind |-> "Request", val |-> v]
Require == [kind |-> "Require"]
Reject == [kind |-> "None"]

ScannerActions == {Return(v) : v \in Vals} \cup {Request(v) : v \in Vals}
                    \cup {Require, Reject}

\* F applied to the value of e, with e evaluated once.
With(F(_), e) == CHOOSE r \in {F(x) : x \in {e}} : TRUE

Last(s) == s[Len(s)]
Front(s) == SubSeq(s, 1, Len(s) - 1)

\* The sequences over S of length at most n.
SeqsUpTo(S, n) == UNION {[1..k -> S] : k \in 0..n}

----------------------------------------------------------------------------
(* Scanner<T>: the primitives.  A predicate is the set of elements it      *)
(* accepts; each operator returns the new queue and the returned value.    *)

IsDone(q) == q = << >>

Peek(q) == IF q = << >> THEN None ELSE Some(Head(q))

Pop(q) ==
    IF q = << >> THEN [toks |-> q, val |-> None]
    ELSE [toks |-> Tail(q), val |-> Some(Head(q))]

Transform(q, f) ==
    IF Peek(q) = None THEN [toks |-> q, val |-> None]
    ELSE IF f[Head(q)] = None THEN [toks |-> q, val |-> None]
    ELSE [toks |-> Pop(q).toks, val |-> f[Head(q)]]

Test(q, p) == Peek(q) # None /\ Head(q) \in p

\* Mutant: the predicate is not asked.
TakeUntested(q, p) == Pop(q)

Take(q, p) == IF Test(q, p) THEN Pop(q) ELSE [toks |-> q, val |-> None]

RECURSIVE TakeWhile(_, _)
TakeWhile(q, p) ==
    IF Test(q, p)
    THEN With(LAMBDA r : [toks |-> r.toks, val |-> <<Head(q)>> \o r.val],
              With(LAMBDA rest : TakeWhile(rest, p), Pop(q).toks))
    ELSE [toks |-> q, val |-> << >>]

----------------------------------------------------------------------------
(* Scanner::scan, one loop iteration.  st = [toks, sequence, request,      *)
(* require]; the result adds done (the loop broke) and ret (its value).    *)

\* Mutant: the element goes to the back of the queue.
PushBack(q, x) == q \o <<x>>

PushFront(q, x) == <<x>> \o q

\* Mutant: the obligation is not looked at.
ScanBreakIgnoresRequire(req, rq, e) == Ok(rq)

\* break if require { Err(..) } else { Ok(request) }
ScanBreak(req, rq, e) == IF req THEN Err(e) ELSE Ok(rq)

ScanStart(q) == [toks |-> q, sequence |-> << >>, request |-> None, require |-> FALSE]

\* let Some(tok) = self.pop() else { break ... }
ScanEof(st) ==
    [toks |-> st.toks, sequence |-> st.sequence, request |-> st.request,
     require |-> st.require, done |-> TRUE,
     ret |-> ScanBreak(st.require, st.request, "EOF")]

\* The prefix the matcher is shown in this iteration.
ScanShown(st) == Append(st.sequence, Head(st.toks))

\* Mutant: Return leaves the element just examined in the queue.
OnReturnNoPop(st, v) ==
    [toks |-> st.toks, sequence |-> ScanShown(st), request |-> st.request,
     require |-> st.require, done |-> TRUE, ret |-> Ok(Some(v))]

OnReturn(st, v) ==
    [toks |-> Pop(st.toks).toks, sequence |-> ScanShown(st), request |-> st.request,
     require |-> st.require, done |-> TRUE, ret |-> Ok(Some(v))]

\* Mutant: Request does not clear the obligation.
OnRequestKeepsRequire(st, v) ==
    [toks |-> Pop(st.toks).toks, sequence |-> ScanShown(st), request |-> Some(v),
     require |-> st.require, done |-> FALSE, ret |-> Ok(None)]

OnRequest(st, v) ==
    [toks |-> Pop(st.toks).toks, sequence |-> ScanShown(st), request |-> Some(v),
     require |-> FALSE, done |-> FALSE, ret |-> Ok(None)]

\* Mutant: Require looks at the front element without removing it.
OnRequireNoPop(st) ==
    [toks |-> st.toks, sequence |-> ScanShown(st), request |-> st.request,
     require |-> TRUE, done |-> FALSE, ret |-> Ok(None)]

OnRequire(st) ==
    [toks |-> Pop(st.toks).toks, sequence |-> ScanShown(st), request |-> st.request,
     require |-> TRUE, done |-> FALSE, ret |-> Ok(None)]

\* Mutant: the put-back re-inserts the first element of the prefix.
OnNonePutsBackFirst(st) ==
    [toks |-> PushFront(Pop(st.toks).toks, Head(ScanShown(st))),
     sequence |-> Front(ScanShown(st)), request |-> st.request,
     require |-> st.require, done |-> TRUE,
     ret |-> ScanBreak(st.require, st.request, "TODO: Error")]

OnNone(st) ==
    [toks |-> PushFront(Pop(st.toks).toks, Last(ScanShown(st))),
     sequence |-> Front(ScanShown(st)), request |-> st.request,
     require |-> st.require, done |-> TRUE,
     ret |-> ScanBreak(st.require, st.request, "TODO: Error")]

\* act is cb(&sequence[..]) for the prefix ScanShown(st).
ScanIter(st, act) ==
    CASE act.kind = "Return" -> OnReturn(st, act.val)
      [] act.kind = "Request" -> OnRequest(st, act.val)
      [] act.kind = "Require" -> OnRequire(st)
      [] act.kind = "None" -> OnNone(st)

----------------------------------------------------------------------------
(* Spec: a Scanner<T> under arbitrary calls. *)

Preds == SUBSET Elems
Transforms == [Elems -> {None} \cup {Some(v) : v \in Vals}]

ScanState == [toks |-> toks, sequence |-> sequence, request |-> request,
              require |-> require]

Init ==
    /\ impl \in {"Scanner", "TokenScanner"}
    /\ input \in SeqsUpTo(Elems, MaxLen)
    /\ toks = input
    /\ cursor = 0
    /\ pc = "idle"
    /\ op = "new"
    /\ sequence = << >>
    /\ request = None
    /\ require = FALSE
    /\ result = Ok(None)
    /\ before = input
    /\ hist = << >>
    /\ iters = 0
    /\ res = << >>
    /\ collecting = FALSE
    /\ scanret = None
    /\ frames = << >>
    /\ first = None
    /\ arg = NoArg
    /\ tokscan = None

CollectLocals == <<res, collecting>>

\* scan's locals are gone once its caller moves on.
NoScan(q) ==
    /\ sequence' = << >>
    /\ request' = None
    /\ require' = FALSE
    /\ before' = q
    /\ hist' = << >>
    /\ iters' = 0
    /\ scanret' = None

\* An operation that returns at once: its argument, new queue, returned value.
Returns(name, a, r) ==
    /\ impl = "Scanner"
    /\ pc = "idle"
    /\ op' = name
    /\ arg' = a
    /\ toks' = r.toks
    /\ result' = Ok(r.val)
    /\ NoScan(r.toks)
    /\ UNCHANGED <<impl, input, cursor, pc, frames, first, tokscan>>
    /\ UNCHANGED CollectLocals

DoIsDone == Returns("is_done", NoArg, [toks |-> toks, val |-> <<IsDone(toks)>>])
DoPeek == Returns("peek", NoArg, [toks |-> toks, val |-> Peek(toks)])
DoPop == Returns("pop", NoArg, Pop(toks))
DoTest ==
    \E p \in Preds : Returns("test", PredArg(p), [toks |-> toks, val |-> <<Test(toks, p)>>])
DoTake == \E p \in Preds : Returns("take", PredArg(p), Take(toks, p))
DoTakeWhile == \E p \in Preds : Returns("take_while", PredArg(p), TakeWhile(toks, p))
DoTransform == \E f \in Transforms : Returns("transform", FnArg(f), Transform(toks, f))

\* The first three statements of scan.
EnterScan(q) ==
    /\ sequence' = ScanStart(q).sequence
    /\ request' = ScanStart(q).request
    /\ require' = ScanStart(q).require
    /\ before' = q
    /\ hist' = << >>
    /\ iters' = 0
    /\ scanret' = None
    /\ pc' = "scan"

ScanCall ==
    /\ impl = "Scanner"
    /\ pc = "idle"
    /\ op' = "scan"
    /\ collecting' = FALSE
    /\ EnterScan(toks)
    /\ arg' = NoArg
    /\ UNCHANGED <<impl, input, toks, cursor, result, res, frames, first, tokscan>>

\* Mutant: collect's loop has no else { break }.
ScanReturnsNoBreak(ret) ==
    IF collecting
    THEN IF ~ret.ok
         THEN /\ result' = Err(ret.err)
              /\ pc' = "idle"
              /\ collecting' = FALSE
              /\ res' = << >>
         ELSE IF ret.val = None
         THEN /\ pc' = "collect"
              /\ UNCHANGED <<result, collecting, res>>
         ELSE /\ res' = Append(res, ret.val[1])
              /\ pc' = "collect"
              /\ UNCHANGED <<result, collecting>>
    ELSE /\ result' = ret
         /\ pc' = "idle"
         /\ UNCHANGED <<res, collecting>>

\* scan's loop broke with ret: back in the caller.
ScanReturns(ret) ==
    IF collecting
    THEN IF ~ret.ok
         THEN /\ result' = Err(ret.err)           \* the ? operator
              /\ pc' = "idle"
              /\ collecting' = FALSE
              /\ res' = << >>
         ELSE IF ret.val = None
         THEN /\ result' = Ok(res)                \* else { break }
              /\ pc' = "idle"
              /\ collecting' = FALSE
              /\ res' = << >>
         ELSE /\ res' = Append(res, ret.val[1])   \* res.push(r)
              /\ pc' = "collect"
              /\ UNCHANGED <<result, collecting>>
    ELSE /\ result' = ret
         /\ pc' = "idle"
         /\ UNCHANGED <<res, collecting>>

\* The locals after a loop iteration, and the return when the loop broke.
ScanApplyLocals(st, h) ==
    /\ sequence' = st.sequence
    /\ request' = st.request
    /\ require' = st.require
    /\ hist' = h
    /\ iters' = iters + 1
    /\ scanret' = IF st.done THEN Some(st.ret) ELSE None
    /\ IF st.done THEN ScanReturns(st.ret)
       ELSE UNCHANGED <<pc, result, res, collecting>>
    /\ UNCHANGED <<impl, input, op, before, frames, first, arg, tokscan>>

ScanApply(st, h) ==
    /\ impl = "Scanner"
    /\ toks' = st.toks
    /\ cursor' = cursor
    /\ ScanApplyLocals(st, h)

\* A loop iteration that finds the queue empty.
ScanLoopEof ==
    /\ pc = "scan"
    /\ IsDone(toks)
    /\ ScanApply(ScanEof(ScanState), hist)

\* A loop iteration that pops an element and asks the matcher.
ScanLoopMatch ==
    /\ pc = "scan"
    /\ ~IsDone(toks)
    /\ \E act \in ScannerActions :
          ScanApply(ScanIter(ScanState, act),
                    Append(hist, [act |-> act, shown |-> ScanShown(ScanState)]))

CollectCall ==
    /\ impl = "Scanner"
    /\ pc = "idle"
    /\ op' = "collect"
    /\ res' = << >>
    /\ collecting' = TRUE
    /\ pc' = "collect"
    /\ NoScan(toks)
    /\ arg' = NoArg
    /\ UNCHANGED <<impl, input, toks, cursor, result, frames, first, tokscan>>

\* while !self.is_done() { ... self.scan(&cb) ... }
CollectLoop ==
    /\ pc = "collect"
    /\ IF IsDone(toks)
       THEN /\ result' = Ok(res)
            /\ pc' = "idle"
            /\ collecting' = FALSE
            /\ res' = << >>
            /\ NoScan(toks)
       ELSE /\ EnterScan(toks)
            /\ UNCHANGED <<result, collecting, res>>
    /\ UNCHANGED <<impl, input, toks, cursor, op, frames, first, arg, tokscan>>

----------------------------------------------------------------------------
(* lib.rs: TokenScanner.  The vector toks is never changed; cursor counts  *)
(* the elements consumed.  A matcher answering Option::None is Reject.     *)

\* The elements at and after the cursor.
Rest(v, c) == SubSeq(v, c + 1, Len(v))

\* What is left to scan, in either implementation.
Remaining == IF impl = "TokenScanner" THEN Rest(toks, cursor) ELSE toks

TsIsDone(v, c) == c = Len(v)

TsPeek(v, c) == IF c + 1 \in 1..Len(v) THEN Some(v[c + 1]) ELSE None

TsPop(v, c) ==
    IF TsPeek(v, c) = None THEN [cursor |-> c, val |-> None]
    ELSE [cursor |-> c + 1, val |-> TsPeek(v, c)]

\* break if require { Err(..) } else { Ok(request) }
TsScanBreak(req, rq, e) == IF req THEN Err(e) ELSE Ok(rq)

\* let Some(target) = self.toks.get(self.cursor) else { break ... }
TsScanEof(st) ==
    [cursor |-> st.cursor, sequence |-> st.sequence, request |-> st.request,
     require |-> st.require, done |-> TRUE,
     ret |-> TsScanBreak(st.require, st.request, "EOF")]

\* sequence.push(target)
TsScanShown(v, st) == Append(st.sequence, v[st.cursor + 1])

\* Mutant: the cursor steps over a rejected element.
TsOnNoneAdvances(v, st) ==
    [cursor |-> st.cursor + 1, sequence |-> TsScanShown(v, st), request |-> st.request,
     require |-> st.require, done |-> TRUE,
     ret |-> TsScanBreak(st.require, st.request, "TODO: Error")]

\* let Some(action) = cb(&sequence[..]) else { break ... }
TsOnNone(v, st) ==
    [cursor |-> st.cursor, sequence |-> TsScanShown(v, st), request |-> st.request,
     require |-> st.require, done |-> TRUE,
     ret |-> TsScanBreak(st.require, st.request, "TODO: Error")]

\* self.cursor += 1; match action { ... }
TsScanIter(v, st, act) ==
    CASE act.kind = "None" -> TsOnNone(v, st)
      [] act.kind = "Return" ->
            [cursor |-> st.cursor + 1, sequence |-> TsScanShown(v, st),
             request |-> st.request, require |-> st.require, done |-> TRUE,
             ret |-> Ok(Some(act.val))]
      [] act.kind = "Request" ->
            [cursor |-> st.cursor + 1, sequence |-> TsScanShown(v, st),
             request |-> Some(act.val), require |-> FALSE, done |-> FALSE,
             ret |-> Ok(None)]
      [] act.kind = "Require" ->
            [cursor |-> st.cursor + 1, sequence |-> TsScanShown(v, st),
             request |-> st.request, require |-> TRUE, done |-> FALSE,
             ret |-> Ok(None)]

TsScanState == [cursor |-> cursor, sequence |-> sequence, request |-> request,
                require |-> require]

\* A TokenScanner operation that returns at once.
TsReturns(name, r) ==
    /\ impl = "TokenScanner"
    /\ pc = "idle"
    /\ op' = name
    /\ cursor' = r.cursor
    /\ result' = Ok(r.val)
    /\ NoScan(Rest(toks, r.cursor))
    /\ arg' = NoArg
    /\ UNCHANGED <<impl, input, toks, pc, frames, first, tokscan>>
    /\ UNCHANGED CollectLocals

TsDoIsDone == TsReturns("is_done", [cursor |-> cursor, val |-> <<TsIsDone(toks, cursor)>>])
TsDoPeek == TsReturns("peek", [cursor |-> cursor, val |-> TsPeek(toks, cursor)])
TsDoPop == TsReturns("pop", TsPop(toks, cursor))

TsScanCall ==
    /\ impl = "TokenScanner"
    /\ pc = "idle"
    /\ op' = "scan"
    /\ EnterScan(Rest(toks, cursor))
    /\ arg' = NoArg
    /\ UNCHANGED <<impl, input, toks, cursor, result, res, collecting, frames, first,
                   tokscan>>

TsScanApply(st, h) ==
    /\ impl = "TokenScanner"
    /\ cursor' = st.cursor
    /\ toks' = toks
    /\ ScanApplyLocals(st, h)

TsScanLoopEof ==
    /\ pc = "scan"
    /\ TsPeek(toks, cursor) = None
    /\ TsScanApply(TsScanEof(TsScanState), hist)

TsScanLoopMatch ==
    /\ pc = "scan"
    /\ TsPeek(toks, cursor) # None
    /\ \E act \in ScannerActions :
          TsScanApply(TsScanIter(toks, TsScanState, act),
                      Append(hist, [act |-> act, shown |-> TsScanShown(toks, TsScanState)]))

Next ==
    \/ DoIsDone
    \/ DoPeek
    \/ DoPop
    \/ DoTest
    \/ DoTake
    \/ DoTakeWhile
    \/ DoTransform
    \/ ScanCall
    \/ ScanLoopEof
    \/ ScanLoopMatch
    \/ CollectCall
    \/ CollectLoop
    \/ TsDoIsDone
    \/ TsDoPeek
    \/ TsDoPop
    \/ TsScanCall
    \/ TsScanLoopEof
    \/ TsScanLoopMatch

Spec == Init /\ [][Next]_vars

\* scan is a plain loop in a single thread: once called, it keeps iterating;
\* so does collect.
ScanLoop == ScanLoopEof \/ ScanLoopMatch \/ TsScanLoopEof \/ TsScanLoopMatch

FairSpec == Spec /\ WF_vars(ScanLoop) /\ WF_vars(CollectLoop)

----------------------------------------------------------------------------
(* SpecPair: a Scanner and a TokenScanner made from the same input, whose  *)
(* scan is called on both with the same matcher.  toks is the Scanner's    *)
(* queue; input is the TokenScanner's vector and cursor its cursor.  A     *)
(* step is one loop iteration of each call that has not returned; the      *)
(* matcher gives both the same answer when it is shown the same prefix.    *)

TsStart == [sequence |-> << >>, request |-> None, require |-> FALSE, done |-> FALSE,
            ret |-> Ok(None)]

InitPair ==
    /\ impl = "Both"
    /\ input \in SeqsUpTo(Elems, MaxLen)
    /\ toks = input
    /\ cursor = 0
    /\ pc = "idle"
    /\ op = "new"
    /\ sequence = << >>
    /\ request = None
    /\ require = FALSE
    /\ result = Ok(None)
    /\ before = input
    /\ hist = << >>
    /\ iters = 0
    /\ res = << >>
    /\ collecting = FALSE
    /\ scanret = None
    /\ frames = << >>
    /\ first = None
    /\ arg = NoArg
    /\ tokscan = [TsStart EXCEPT !.done = TRUE]

PairUnused == <<impl, input, res, collecting, frames, first, arg>>

\* scan is called on both.
PairScanCall ==
    /\ impl = "Both"
    /\ pc = "idle"
    /\ op' = "scan"
    /\ EnterScan(toks)
    /\ tokscan' = TsStart
    /\ UNCHANGED <<toks, cursor, result>>
    /\ UNCHANGED PairUnused

PairTsState == [cursor |-> cursor, sequence |-> tokscan.sequence, request |-> tokscan.request,
                require |-> tokscan.require]

\* The Scanner's call after one more iteration with answer act (as it is,
\* when it has returned).
PairScannerIter(act) ==
    IF scanret # None
    THEN [toks |-> toks, sequence |-> sequence, request |-> request, require |-> require,
          done |-> TRUE, ret |-> scanret[1]]
    ELSE IF IsDone(toks) THEN ScanEof(ScanState)
    ELSE ScanIter(ScanState, act)

\* The TokenScanner's call after one more iteration with answer act.
PairTsIter(act) ==
    IF tokscan.done
    THEN [cursor |-> cursor, sequence |-> tokscan.sequence, request |-> tokscan.request,
          require |-> tokscan.require, done |-> TRUE, ret |-> tokscan.ret]
    ELSE IF TsPeek(input, cursor) = None THEN TsScanEof(PairTsState)
    ELSE TsScanIter(input, PairTsState, act)

\* Both calls are shown the same prefix in this iteration.
SamePrefix ==
    /\ scanret = None /\ ~tokscan.done
    /\ ~IsDone(toks) /\ TsPeek(input, cursor) # None
    /\ ScanShown(ScanState) = TsScanShown(input, PairTsState)

PairScanLoop ==
    /\ impl = "Both"
    /\ pc = "scan"
    /\ \E act, act2 \in ScannerActions :
          /\ SamePrefix => act2 = act
          /\ \E s \in {PairScannerIter(act)}, t \in {PairTsIter(act2)} :
                /\ toks' = s.toks
                /\ sequence' = s.sequence
                /\ request' = s.request
                /\ require' = s.require
                /\ scanret' = IF s.done THEN Some(s.ret) ELSE None
                /\ result' = IF s.done THEN s.ret ELSE result
                /\ hist' = IF scanret = None /\ ~IsDone(toks)
                           THEN Append(hist, [act |-> act, shown |-> ScanShown(ScanState)])
                           ELSE hist
                /\ iters' = iters + 1
                /\ cursor' = t.cursor
                /\ tokscan' = [sequence |-> t.sequence, request |-> t.request,
                          require |-> t.require, done |-> t.done, ret |-> t.ret]
                /\ pc' = IF s.done /\ t.done THEN "idle" ELSE "scan"
    /\ UNCHANGED <<op, before>>
    /\ UNCHANGED PairUnused

NextPair ==
    \/ PairScanCall
    \/ PairScanLoop

SpecPair == InitPair /\ [][NextPair]_vars

----------------------------------------------------------------------------
(* token.rs: characters.  A char is a string of length one; NUL is '\0'.   *)

Letters == {"a", "b", "c", "d", "e", "f", "g", "h", "i", "j", "k", "l", "m",
            "n", "o", "p", "q", "r", "s", "t", "u", "v", "w", "x", "y", "z",
            "A", "B", "C", "D", "E", "F", "G", "H", "I", "J", "K", "L", "M",
            "N", "O", "P", "Q", "R", "S", "T", "U", "V", "W", "X", "Y", "Z"}
AsciiDigits == {"0", "1", "2", "3", "4", "5", "6", "7", "8", "9"}
WhiteSpace == {" ", "\t", "\n", "\r"}
Symbols == {"-", "+", "/", "*", "_", "(", ")", "[", "]", "{", "}", "\"", "'",
            "\\", "NUL"}
AllChars == Letters \cup AsciiDigits \cup WhiteSpace \cup Symbols

\* char::to_digit for radix <= 16
DigitVal(c) ==
    CASE c = "0" -> 0 [] c = "1" -> 1 [] c = "2" -> 2 [] c = "3" -> 3
      [] c = "4" -> 4 [] c = "5" -> 5 [] c = "6" -> 6 [] c = "7" -> 7
      [] c = "8" -> 8 [] c = "9" -> 9
      [] c \in {"a", "A"} -> 10 [] c \in {"b", "B"} -> 11
      [] c \in {"c", "C"} -> 12 [] c \in {"d", "D"} -> 13
      [] c \in {"e", "E"} -> 14 [] c \in {"f", "F"} -> 15
      [] OTHER -> 99

\* char::is_digit(radix)
IsDigit(c, radix) == DigitVal(c) < radix

AllDigits(cs, radix) == \A i \in 1..Len(cs) : IsDigit(cs[i], radix)

\* The width of the integer type of Token::Number.  It is i64 in
\* token.rs:63; the model keeps the type's behaviour at a smaller width,
\* so that the texts at the ends of its range stay short.
IntBits == 20

MaxI64 == 2^(IntBits - 1) - 1
MinI64 == 0 - 2^(IntBits - 1)

\* The message of ParseIntError, kind PosOverflow.
ParseOverflow == "number too large to fit in target type"

\* str::parse::<i64> / i64::from_str_radix on a string of digits of the
\* radix: the digits are added from the left, each step checked
\* (checked_mul, checked_add); val is the integer.
RECURSIVE FromStrRadix(_, _)
FromStrRadix(cs, radix) ==
    IF cs = << >> THEN Ok(0)
    ELSE With(LAMBDA r : IF ~r.ok THEN r
                         ELSE IF r.val * radix + DigitVal(Last(cs)) > MaxI64
                         THEN Err(ParseOverflow)
                         ELSE Ok(r.val * radix + DigitVal(Last(cs))),
              FromStrRadix(Front(cs), radix))

----------------------------------------------------------------------------
(* token.rs: Delimiter and Token *)

FromOpen(c) ==
    CASE c = "(" -> Some("Parenthesis")
      [] c = "[" -> Some("Bracket")
      [] c = "{" -> Some("Brace")
      [] c = "NUL" -> Some("None")
      [] OTHER -> None

FromOpenFn == [c \in AllChars |-> FromOpen(c)]

Close(d) ==
    CASE d = "Parenthesis" -> ")"
      [] d = "Bracket" -> "]"
      [] d = "Brace" -> "}"
      [] d = "None" -> "NUL"

Group(d, ts) == [type |-> "Group", delim |-> d, toks |-> ts]
Ident(s) == [type |-> "Ident", text |-> s]
Punct(c) == [type |-> "Punct", ch |-> c]
String(s) == [type |-> "String", text |-> s]
Char(c) == [type |-> "Char", ch |-> c]
Number(n) == [type |-> "Number", value |-> n]

----------------------------------------------------------------------------
(* token.rs: the matchers.  Each returns [toks, val, panic, msg]: the queue *)
(* it leaves, the Option<Token> it returns, whether it panicked instead    *)
(* and the message of that panic.                                          *)

Matched(q, t) == [toks |-> q, val |-> Some(t), panic |-> FALSE, msg |-> ""]
NoMatch(q) == [toks |-> q, val |-> None, panic |-> FALSE, msg |-> ""]
Panicked(q, m) == [toks |-> q, val |-> None, panic |-> TRUE, msg |-> m]

\* The messages of the panics (the standard library's for unwrap on None,
\* shortened).
UnwrapNone == "called Option::unwrap() on a None value"
ExplicitPanic == "explicit panic"
UnknownControl == "Unknown control sequence"
UnclosedChar == "Unclosed character"
MissingClose == "Missing closing delimiter"

SkipWhitespace(q) == TakeWhile(q, WhiteSpace).toks

\* Mutant: an identifier goes on over letters and '_' only.
MatchIdentifierNoDigits(q) ==
    IF Test(q, Letters \cup {"_"})
    THEN With(LAMBDA r : Matched(r.toks, Ident(r.val)),
              TakeWhile(q, Letters \cup {"_"}))
    ELSE NoMatch(q)

MatchIdentifier(q) ==
    IF Test(q, Letters \cup {"_"})
    THEN With(LAMBDA r : Matched(r.toks, Ident(r.val)),
              TakeWhile(q, Letters \cup AsciiDigits \cup {"_"}))
    ELSE NoMatch(q)

\* Mutant: a base prefix alone is accepted as the pending zero.
OnBasePrefixRequestsZero == Request(Number(0))

\* ['0', 'x'] | ['0', 'o'] | ['0', 'b'] => ScannerAction::Require
OnBasePrefix == Require

\* Mutant: the digits after a base prefix are tested as decimal digits.
BaseArmTestsDecimal(chars, p, radix) ==
    /\ Len(chars) >= 2 /\ chars[1] = "0" /\ chars[2] = p
    /\ AllDigits(SubSeq(chars, 3, Len(chars)), 10)

\* ['0', p, ..] if the rest are digits of the radix => Request(Number(..))
BaseArm(chars, p, radix) ==
    /\ Len(chars) >= 2 /\ chars[1] = "0" /\ chars[2] = p
    /\ AllDigits(SubSeq(chars, 3, Len(chars)), radix)

\* Mutant: a '-' alone obliges the scan to find more.
OnMinusRequires == Require

\* ['-'] => ScannerAction::Request(Token::Punct('-'))
OnMinus == Request(Punct("-"))

\* The closure panics: unwrap on the Err of a conversion.
CbPanic(m) == [kind |-> "Panic", msg |-> m]

\* Request(Token::Number(sign * parsed.unwrap()))
RequestNumber(sign, parsed) ==
    IF parsed.ok THEN Request(Number(sign * parsed.val)) ELSE CbPanic(parsed.err)

\* The closure match_number gives to scan: the arms in source order.
MatchNumberCb(chars) ==
    IF chars = <<"-">> THEN OnMinus
    ELSE IF Head(chars) = "-" /\ AllDigits(Tail(chars), 10)
    THEN RequestNumber(0 - 1, FromStrRadix(Tail(chars), 10))
    ELSE IF chars = <<"0">> THEN Request(Number(0))
    ELSE IF chars = <<"0", "x">> THEN OnBasePrefix
    ELSE IF BaseArm(chars, "x", 16)
    THEN RequestNumber(1, FromStrRadix(SubSeq(chars, 3, Len(chars)), 16))
    ELSE IF chars = <<"0", "o">> THEN OnBasePrefix
    ELSE IF BaseArm(chars, "o", 8)
    THEN RequestNumber(1, FromStrRadix(SubSeq(chars, 3, Len(chars)), 8))
    ELSE IF chars = <<"0", "b">> THEN OnBasePrefix
    ELSE IF BaseArm(chars, "b", 2)
    THEN RequestNumber(1, FromStrRadix(SubSeq(chars, 3, Len(chars)), 2))
    ELSE IF AllDigits(chars, 10) THEN RequestNumber(1, FromStrRadix(chars, 10))
    ELSE Reject

\* The closure panicked with message m: scan does not return, the panic
\* goes on through it (ret keeps the message).
Unwound(st, m) ==
    [toks |-> Pop(st.toks).toks, sequence |-> ScanShown(st), request |-> st.request,
     require |-> st.require, done |-> TRUE, ret |-> Err(m)]

\* Scanner::scan run to its end with match_number's closure.
RECURSIVE ScanNumber(_)
ScanNumber(st) ==
    IF IsDone(st.toks) THEN ScanEof(st)
    ELSE With(LAMBDA act :
                IF act.kind = "Panic" THEN Unwound(st, act.msg)
                ELSE With(LAMBDA n : IF n.done THEN n
                                     ELSE ScanNumber([toks |-> n.toks,
                                                      sequence |-> n.sequence,
                                                      request |-> n.request,
                                                      require |-> n.require]),
                          ScanIter(st, act)),
              MatchNumberCb(ScanShown(st)))

\* scan(..).unwrap() panics on Err (and a panic of the closure goes on).
MatchNumber(q) ==
    IF Test(q, AsciiDigits \cup {"-"})
    THEN With(LAMBDA r : IF r.ret.ok
                         THEN [toks |-> r.toks, val |-> r.ret.val, panic |-> FALSE,
                               msg |-> ""]
                         ELSE Panicked(r.toks, r.ret.err),
              With(ScanNumber, ScanStart(q)))
    ELSE NoMatch(q)

\* Mutant: an escaped quote is pushed together with its backslash.
RECURSIVE StringBodyKeepsBackslash(_, _)
StringBodyKeepsBackslash(q, s) ==
    With(LAMBDA c :
           IF c.val = None THEN Matched(c.toks, String(s))
           ELSE IF c.val = Some("\"") THEN Matched(c.toks, String(s))
           ELSE IF c.val = Some("\\")
           THEN With(LAMBDA e :
                       IF e.val = None THEN Panicked(e.toks, ExplicitPanic)
                       ELSE IF e.val = Some("\"")
                       THEN With(LAMBDA s1 : StringBodyKeepsBackslash(e.toks, s1),
                                 s \o <<"\\", "\"">>)
                       ELSE Panicked(e.toks, UnknownControl),
                     Pop(c.toks))
           ELSE With(LAMBDA s1 : StringBodyKeepsBackslash(c.toks, s1), Append(s, c.val[1])),
         Pop(q))

\* The while-let loop of match_string; s is the text gathered so far.
RECURSIVE StringBody(_, _)
StringBody(q, s) ==
    With(LAMBDA c :
           IF c.val = None THEN Matched(c.toks, String(s))
           ELSE IF c.val = Some("\"") THEN Matched(c.toks, String(s))
           ELSE IF c.val = Some("\\")
           THEN With(LAMBDA e :
                       IF e.val = None THEN Panicked(e.toks, ExplicitPanic)
                       ELSE IF e.val = Some("\"")
                       THEN With(LAMBDA s1 : StringBody(e.toks, s1), Append(s, e.val[1]))
                       ELSE Panicked(e.toks, UnknownControl),
                     Pop(c.toks))
           ELSE With(LAMBDA s1 : StringBody(c.toks, s1), Append(s, c.val[1])),
         Pop(q))

MatchString(q) ==
    With(LAMBDA open : IF open.val # None THEN StringBody(open.toks, << >>)
                       ELSE NoMatch(q),
         Take(q, {"\""}))

\* Mutant: the closing quote is taken when it is there, not insisted on.
CharCloseOptional(q, c) ==
    With(LAMBDA close : Matched(close.toks, Char(c)), Take(q, {"'"}))

\* The closing quote of match_char, after the character c.
CharClose(q, c) ==
    With(LAMBDA close : IF close.val = None THEN Panicked(q, UnclosedChar)
                        ELSE Matched(close.toks, Char(c)),
         Take(q, {"'"}))

MatchChar(q) ==
    With(LAMBDA open :
           IF open.val = None THEN NoMatch(q)
           ELSE With(LAMBDA c :
                       IF c.val = None THEN Panicked(c.toks, UnwrapNone)
                       ELSE IF c.val = Some("\\")
                       THEN With(LAMBDA e :
                                   IF e.val = None THEN Panicked(e.toks, UnwrapNone)
                                   ELSE IF e.val # Some("'")
                                   THEN Panicked(e.toks, UnknownControl)
                                   ELSE CharClose(e.toks, e.val[1]),
                                 Pop(c.toks))
                       ELSE CharClose(c.toks, c.val[1]),
                     Pop(open.toks)),
         Take(q, {"'"}))

\* get_tok: skip_whitespace, then the or_else chain.  The answer says which
\* matcher gave it (by) and what happened (kind): "tok" (a token, val),
\* "open" (match_group's transform took an opening delimiter, val), "none"
\* (get_tok returns None) or "panic" (msg).
Answer(by, kind, r) == [by |-> by, kind |-> kind, toks |-> r.toks, val |-> r.val, msg |-> ""]

Abort(by, r) == [by |-> by, kind |-> "panic", toks |-> r.toks, val |-> None, msg |-> r.msg]

OrElseChar(q) ==
    With(LAMBDA ch : IF ch.panic THEN Abort("char", ch)
                     ELSE IF ch.val # None THEN Answer("char", "tok", ch)
                     ELSE Answer("none", "none", ch),
         MatchChar(q))

OrElseString(q) ==
    With(LAMBDA st : IF st.panic THEN Abort("string", st)
                     ELSE IF st.val # None THEN Answer("string", "tok", st)
                     ELSE OrElseChar(st.toks),
         MatchString(q))

OrElseGroup(q) ==
    With(LAMBDA gr : IF gr.val # None THEN Answer("group", "open", gr)
                     ELSE OrElseString(gr.toks),
         Transform(q, FromOpenFn))

OrElseNumber(q) ==
    With(LAMBDA nu : IF nu.panic THEN Abort("number", nu)
                     ELSE IF nu.val # None THEN Answer("number", "tok", nu)
                     ELSE OrElseGroup(nu.toks),
         MatchNumber(q))

GetTok(q) ==
    With(LAMBDA id : IF id.val # None THEN Answer("identifier", "tok", id)
                     ELSE OrElseNumber(id.toks),
         With(MatchIdentifier, SkipWhitespace(q)))

\* The result of the scan call match_number makes on q, when it makes one
\* and the call returns.
NumberScan(q) ==
    With(LAMBDA q0 : IF MatchIdentifier(q0).val = None /\ Test(q0, AsciiDigits \cup {"-"})
                     THEN With(LAMBDA r : IF r.ret.err = ParseOverflow THEN None
                                          ELSE Some(r.ret),
                               With(ScanNumber, ScanStart(q0)))
                     ELSE None,
         SkipWhitespace(q))

----------------------------------------------------------------------------
(* SpecTok: tokenize(code).  frames holds one entry per running            *)
(* tokenize_scanner call, innermost last: the delimiter match_group        *)
(* opened it with ("top" for tokenize's own) and its local `toks`.         *)

\* Longest text given to tokenize, per family of texts.
NumMaxLen == 4
TextMaxLen == 4

IdMaxLen == 4

\* The digit characters, by value.
DigitChars == <<"0", "1", "2", "3", "4", "5", "6", "7", "8", "9",
                "a", "b", "c", "d", "e", "f">>

\* n >= 0 written in the radix.
RECURSIVE ToDigits(_, _)
ToDigits(n, radix) ==
    IF n < radix THEN <<DigitChars[n + 1]>>
    ELSE ToDigits(n \div radix, radix) \o <<DigitChars[(n % radix) + 1]>>

\* Literals at the ends of the integer type's range, and one step outside.
LimitTexts ==
    {ToDigits(MaxI64, 10), <<"-">> \o ToDigits(MaxI64, 10),
     <<"-">> \o ToDigits(MaxI64 + 1, 10), ToDigits(MaxI64 + 1, 10),
     <<"0", "x">> \o ToDigits(MaxI64, 16), <<"0", "x">> \o ToDigits(MaxI64 + 1, 16),
     <<"0", "o">> \o ToDigits(MaxI64, 8)}

NumChars == {"0", "1", "8", "x", "o", "b", "g", "-", " "}
TextChars == {"a", "+", "\"", "\\", "'", "(", ")", " "}
IdChars == {"a", "1", "_", " "}

InitTok ==
    /\ impl = "Scanner"
    /\ cursor = 0
    /\ input \in SeqsUpTo(NumChars, NumMaxLen) \cup SeqsUpTo(TextChars, TextMaxLen)
                    \cup SeqsUpTo(IdChars, IdMaxLen) \cup LimitTexts
    /\ toks = input
    /\ pc = "tok"
    /\ op = "tokenize"
    /\ frames = <<[delim |-> "top", toks |-> << >>]>>
    /\ first = None
    /\ arg = NoArg
    /\ tokscan = None
    /\ result = Ok(None)
    /\ before = input
    /\ scanret = None
    /\ sequence = << >>
    /\ request = None
    /\ require = FALSE
    /\ hist = << >>
    /\ iters = 0
    /\ res = << >>
    /\ collecting = FALSE

TokUnused == <<impl, input, cursor, sequence, request, require, hist, iters, res, collecting,
              first, arg, tokscan>>

Push(fs, t) == [fs EXCEPT ![Len(fs)].toks = Append(@, t)]

\* One get_tok call of the innermost tokenize_scanner loop; op is the
\* matcher that answered ("group" also when match_group resumes).
TokStep(g) ==
    /\ pc = "tok"
    /\ op' = IF g.kind = "none" /\ Len(frames) > 1 THEN "group" ELSE g.by
    /\ before' = toks
    /\ scanret' = NumberScan(toks)
    /\ UNCHANGED TokUnused

\* get_tok returned Some(tok): toks.push(tok)
TokEmit ==
    \E g \in {GetTok(toks)} :
       /\ g.kind = "tok"
       /\ TokStep(g)
       /\ toks' = g.toks
       /\ frames' = Push(frames, g.val[1])
       /\ result' = Ok(g.val)
       /\ pc' = "tok"

\* match_group took an opening delimiter and calls tokenize_scanner.
TokOpen ==
    \E g \in {GetTok(toks)} :
       /\ g.kind = "open"
       /\ TokStep(g)
       /\ toks' = g.toks
       /\ frames' = Append(frames, [delim |-> g.val[1], toks |-> << >>])
       /\ result' = Ok(None)
       /\ pc' = "tok"

\* get_tok returned None inside a group: back in match_group, which wants
\* the closing delimiter.
TokClose ==
    \E g \in {GetTok(toks)} :
    \E top \in {Last(frames)} :
       /\ g.kind = "none"
       /\ Len(frames) > 1
       /\ TokStep(g)
       /\ \E cl \in {Take(SkipWhitespace(g.toks), {Close(top.delim)})} :
             /\ toks' = cl.toks
             /\ IF cl.val = None
                THEN /\ pc' = "panic"
                     /\ result' = Err(MissingClose)
                     /\ frames' = frames
                ELSE /\ pc' = "tok"
                     /\ result' = Ok(Some(Group(top.delim, top.toks)))
                     /\ frames' = Push(Front(frames), Group(top.delim, top.toks))

\* get_tok returned None in tokenize's own loop: tokenize returns.
TokFinish ==
    \E g \in {GetTok(toks)} :
       /\ g.kind = "none"
       /\ Len(frames) = 1
       /\ TokStep(g)
       /\ toks' = g.toks
       /\ frames' = frames
       /\ result' = Ok(frames[1].toks)
       /\ pc' = "done"

\* A matcher panicked: the process aborts.
TokPanic ==
    \E g \in {GetTok(toks)} :
       /\ g.kind = "panic"
       /\ TokStep(g)
       /\ toks' = g.toks
       /\ frames' = frames
       /\ result' = Err(g.msg)
       /\ pc' = "panic"

\* The texts of identifier tokens, joined by single spaces.
RECURSIVE JoinIdents(_)
JoinIdents(ts) ==
    IF ts = << >> THEN << >>
    ELSE IF Len(ts) = 1 THEN ts[1].text
    ELSE ts[1].text \o <<" ">> \o JoinIdents(Tail(ts))

\* tokenize returned identifiers only; it is called once more, on those
\* identifiers joined by single spaces.
TokAgain ==
    /\ pc = "done"
    /\ first = None
    /\ \A i \in 1..Len(result.val) : result.val[i].type = "Ident"
    /\ first' = Some(result.val)
    /\ toks' = JoinIdents(result.val)
    /\ before' = JoinIdents(result.val)
    /\ frames' = <<[delim |-> "top", toks |-> << >>]>>
    /\ pc' = "tok"
    /\ op' = "tokenize"
    /\ result' = Ok(None)
    /\ scanret' = None
    /\ UNCHANGED <<impl, input, cursor, sequence, request, require, hist, iters, res,
                   collecting, arg, tokscan>>

NextTok ==
    \/ TokEmit
    \/ TokOpen
    \/ TokClose
    \/ TokFinish
    \/ TokPanic
    \/ TokAgain

SpecTok == InitTok /\ [][NextTok]_vars

----------------------------------------------------------------------------
(* How the scan call that has just returned went (read off hist). *)

IsSuffix(s, t) == Len(s) <= Len(t) /\ s = SubSeq(t, Len(t) - Len(s) + 1, Len(t))

Max(S) == CHOOSE x \in S : \A y \in S : y <= x

ScanEnded == scanret # None
ScanRet == scanret[1]

EndedByReject == ScanEnded /\ iters = Len(hist) /\ hist # << >> /\ Last(hist).act = Reject
EndedByEof == ScanEnded /\ iters = Len(hist) + 1
EndedByReturn == ScanEnded /\ iters = Len(hist) /\ hist # << >>
                    /\ Last(hist).act.kind = "Return"

\* The answers that accepted a prefix: hist without a final rejection.
Accepted(h) == IF h # << >> /\ Last(h).act = Reject THEN Front(h) ELSE h

\* The most recent matcher action was Require.
Obliged(h) == Accepted(h) # << >> /\ Last(Accepted(h)).act = Require

Requests(h) == {i \in 1..Len(h) : h[i].act.kind = "Request"}
LastRequest(h) == IF Requests(h) = {} THEN None ELSE Some(h[Max(Requests(h))].act.val)

Producers(h) == {i \in 1..Len(h) : h[i].act.kind \in {"Request", "Return"}}

----------------------------------------------------------------------------
(* Claims about Scanner::scan *)

\* C1 (as stated): when scan ends by a rejection, the queue equals the queue
\* before the call, also when earlier prefixes were answered Request or Require.
C1_RollbackRestoresAll == EndedByReject => Remaining = before

\* C1 (amended): when scan ends by a rejection, the rejected element is back
\* at the front and the queue is the queue before the call without the
\* elements of the earlier, accepted prefix; it is the whole queue before the
\* call when the first prefix was rejected.
C1_RollbackRestoresRejected ==
    EndedByReject =>
        /\ before = Front(Last(hist).shown) \o Remaining
        /\ Remaining # << >> /\ Head(Remaining) = Last(Last(hist).shown)
        /\ (Len(hist) = 1 => Remaining = before)

C1_Witness ==
    /\ impl = "Scanner" /\ EndedByReject /\ Len(hist) >= 3
    /\ Len(toks) >= 1 /\ toks # before

\* C2: the queue is always a suffix of the input given to Scanner::new, and
\* every step leaves a suffix of the queue it found (a put-back only restores
\* the element the same scan iteration popped).
C2_QueueIsSuffix ==
    /\ [](impl = "Scanner" => IsSuffix(toks, input))
    /\ [][impl = "Scanner" => IsSuffix(toks', toks)]_vars

C2_Witness ==
    /\ impl = "Scanner" /\ EndedByReject /\ Len(hist) = 2 /\ hist[1].act = Require
    /\ toks # << >> /\ toks # input /\ Len(input) = MaxLen

C4_LastRequestWins ==
    /\ pc = "scan" =>
          /\ request = LastRequest(hist)
          /\ require = (hist # << >> /\ Last(hist).act = Require)
    /\ (EndedByReject \/ EndedByEof) /\ ~Obliged(hist) =>
          ScanRet = Ok(LastRequest(hist))

C4_Witness ==
    /\ impl = "Scanner" /\ EndedByEof /\ Len(hist) = 3
    /\ hist[1].act.kind = "Request" /\ hist[2].act = Require
    /\ hist[3].act.kind = "Request" /\ hist[3].act.val # hist[1].act.val
    /\ ScanRet = Ok(Some(hist[3].act.val))

\* C5: when scan returns Ok(Some(v)), v is the value of the last Return or
\* Request and the elements removed from the queue are exactly the prefix the
\* matcher was shown when it gave that answer.
C5_ConsumedIsProducingPrefix ==
    ScanEnded /\ ScanRet.ok /\ ScanRet.val # None =>
        /\ Producers(hist) # {}
        /\ LET i == Max(Producers(hist))
           IN /\ ScanRet.val = Some(hist[i].act.val)
              /\ before = hist[i].shown \o Remaining
              /\ hist[i].act.kind = "Return" => i = Len(hist)
              /\ hist[i].act.kind = "Request" /\ i < Len(hist) =>
                    /\ i = Len(hist) - 1
                    /\ Head(Remaining) = Last(Last(hist).shown)

C5_Witness ==
    /\ impl = "Scanner" /\ EndedByReturn /\ Len(hist) >= 2 /\ toks # << >>
    /\ hist[1].act.kind = "Request"

\* C6: every scan call ends, in Scanner and in TokenScanner: an iteration
\* either removes one element from what remains and stays in the loop or
\* ends the call, so a call makes at most one more iteration than there
\* were elements when it was called.
C6_ScanTerminates ==
    /\ [](iters <= Len(before) + 1)
    /\ [][pc = "scan" =>
            \/ pc' = "scan" /\ Len(Remaining') = Len(Remaining) - 1 /\ iters' = iters + 1
            \/ pc' # "scan" /\ iters' = iters + 1]_vars
    /\ (pc = "scan") ~> (pc # "scan")

C6_Witness ==
    /\ impl = "TokenScanner" /\ EndedByEof /\ iters = MaxLen + 1
    /\ Len(before) = MaxLen /\ cursor = MaxLen

----------------------------------------------------------------------------
(* Claims about tokenize *)

\* The text the last get_tok call started on, after skip_whitespace.
Seen == SkipWhitespace(before)

GetTokRan == op # "tokenize"

\* C7: when tokenize returns, every character of the input has been
\* consumed: the token loop does not end while input remains.
C7_StopsOnlyAtEnd == pc = "done" => toks = << >>

\* C8: tokenize never aborts the process: every fatal condition comes back
\* to the caller as a value.
C8_NeverAborts == pc # "panic"

Radix(p) == CASE p = "x" -> 16 [] p = "o" -> 8 [] p = "b" -> 2

\* q starts with 0x, 0o or 0b and no digit of that base follows.
BadBasePrefix(q) ==
    /\ Len(q) >= 2 /\ q[1] = "0" /\ q[2] \in {"x", "o", "b"}
    /\ (Len(q) = 2 \/ ~IsDigit(q[3], Radix(q[2])))

RECURSIVE Closes(_, _)
Closes(q, i) ==
    IF i > Len(q) THEN FALSE
    ELSE IF q[i] = "\"" THEN TRUE
    ELSE IF q[i] = "\\" THEN Closes(q, i + 2)
    ELSE Closes(q, i + 1)

\* C10: when the input ends after an opening double quote before an
\* unescaped closing one, match_string produces no String token.
C10_UnterminatedStringFails ==
    GetTokRan /\ op = "string" /\ ~Closes(Seen, 2) => result.val = None

----------------------------------------------------------------------------
(* Numeric literals as the specification describes them *)

\* The digits of each base.
BaseDigits(radix) ==
    CASE radix = 2 -> {"0", "1"}
      [] radix = 8 -> {"0", "1", "2", "3", "4", "5", "6", "7"}
      [] radix = 10 -> {"0", "1", "2", "3", "4", "5", "6", "7", "8", "9"}
      [] radix = 16 -> {"0", "1", "2", "3", "4", "5", "6", "7", "8", "9",
                        "a", "b", "c", "d", "e", "f", "A", "B", "C", "D", "E", "F"}

\* How many elements of q, from position i on, are in S before one is not.
RECURSIVE RunLen(_, _, _)
RunLen(q, i, S) == IF i > Len(q) \/ q[i] \notin S THEN 0 ELSE 1 + RunLen(q, i + 1, S)

RECURSIVE Pow(_, _)
Pow(b, n) == IF n = 0 THEN 1 ELSE b * Pow(b, n - 1)

\* The value of a string of digits, by the weight of each place.
RECURSIVE PlaceValue(_, _)
PlaceValue(ds, radix) ==
    IF ds = << >> THEN 0
    ELSE DigitVal(Head(ds)) * Pow(radix, Len(ds) - 1) + PlaceValue(Tail(ds), radix)

HasBasePrefix(q) ==
    /\ Len(q) >= 3 /\ q[1] = "0" /\ q[2] \in {"x", "o", "b"}
    /\ q[3] \in BaseDigits(Radix(q[2]))

IsNegative(q) == Len(q) >= 2 /\ q[1] = "-" /\ q[2] \in BaseDigits(10)

\* The length of the numeric literal q starts with, read greedily; 0 when q
\* starts with none (a base prefix without a digit is none: see C9).
LitLen(q) ==
    IF HasBasePrefix(q) THEN 2 + RunLen(q, 3, BaseDigits(Radix(q[2])))
    ELSE IF BadBasePrefix(q) THEN 0
    ELSE IF IsNegative(q) THEN 1 + RunLen(q, 2, BaseDigits(10))
    ELSE RunLen(q, 1, BaseDigits(10))

\* The value of the literal w (w is all of the literal).
LitValue(w) ==
    IF HasBasePrefix(w) THEN PlaceValue(SubSeq(w, 3, Len(w)), Radix(w[2]))
    ELSE IF IsNegative(w) THEN 0 - PlaceValue(Tail(w), 10)
    ELSE PlaceValue(w, 10)

\* The words of s: its maximal runs of characters that are not whitespace.
RECURSIVE Words(_)
Words(s) ==
    IF s = << >> THEN << >>
    ELSE IF Head(s) \in WhiteSpace THEN Words(Tail(s))
    ELSE With(LAMBDA n : <<SubSeq(s, 1, n)>> \o Words(SubSeq(s, n + 1, Len(s))),
              RunLen(s, 1, AllChars \ WhiteSpace))

\* s is a line of numeric literals separated by whitespace.
IsLiteralLine(s) ==
    \A i \in 1..Len(Words(s)) : LitLen(Words(s)[i]) = Len(Words(s)[i])

LineNumbers(s) == [i \in 1..Len(Words(s)) |-> Number(LitValue(Words(s)[i]))]

\* The digits of the literal w, read in its base, are a value of the
\* integer type (what happens at and past the ends of the type is C20's).
DigitsFit(w) == LitValue(w) \in (0 - MaxI64)..MaxI64

LoneMinus(q) == q # << >> /\ q[1] = "-" /\ ~IsNegative(q)

OnlyIdentChars(s) ==
    \A i \in 1..Len(s) : s[i] \in WhiteSpace \cup Letters \cup AsciiDigits \cup {"_"}

\* ... and each of its words begins with a letter or '_'.
IdentLine(s) ==
    /\ OnlyIdentChars(s)
    /\ \A i \in 1..Len(Words(s)) : Head(Words(s)[i]) \in Letters \cup {"_"}

IdentsOf(s) == [i \in 1..Len(Words(s)) |-> Ident(Words(s)[i])]

\* C13 (as stated): for every text of whitespace and identifier characters,
\* tokenize returns its words, in order, each as one Ident.
C13_EveryWordIsIdent ==
    pc = "done" /\ first = None /\ OnlyIdentChars(input) => result = Ok(IdentsOf(input))

\* C13 (amended): for every text of whitespace and identifier characters
\* each of whose words begins with a letter or '_', tokenize returns (it does not
\* abort) its words, in order, each as one Ident with the word's characters;
\* and tokenize of the returned identifiers joined by single spaces returns
\* the same Ident sequence.
C13_WordsAreIdents ==
    /\ IdentLine(input) => pc # "panic"
    /\ pc = "done" /\ first = None /\ IdentLine(input) => result = Ok(IdentsOf(input))
    /\ pc = "done" /\ first # None => result = Ok(first[1])

C13_Witness ==
    /\ pc = "done" /\ first # None /\ IdentLine(input) /\ Len(first[1]) = 2
    /\ "1" \in {input[i] : i \in 1..Len(input)} /\ result = Ok(first[1])

\* The position of the first quote of q, at or after i, that is not the
\* second character of a backslash-quote pair; 0 when there is none.
RECURSIVE CloseAt(_, _)
CloseAt(q, i) ==
    IF i > Len(q) THEN 0
    ELSE IF q[i] = "\"" THEN i
    ELSE IF q[i] = "\\" /\ i < Len(q) /\ q[i + 1] = "\"" THEN CloseAt(q, i + 2)
    ELSE CloseAt(q, i + 1)

\* q starts with a double-quoted string that is closed.
ClosedString(q) == q # << >> /\ q[1] = "\"" /\ CloseAt(q, 2) > 0

\* The characters between the delimiting quotes.
StringInside(q) == SubSeq(q, 2, CloseAt(q, 2) - 1)

\* s with every backslash-quote pair replaced by a quote.
RECURSIVE Unescaped(_)
Unescaped(s) ==
    IF s = << >> THEN << >>
    ELSE IF Len(s) >= 2 /\ s[1] = "\\" /\ s[2] = "\""
    THEN <<"\"">> \o Unescaped(SubSeq(s, 3, Len(s)))
    ELSE <<s[1]>> \o Unescaped(Tail(s))

\* s has a backslash that no quote follows.
LoneBackslash(s) ==
    \E i \in 1..Len(s) : s[i] = "\\" /\ (i = Len(s) \/ s[i + 1] # "\"")

StringRead ==
    /\ op = "string"
    /\ result = Ok(Some(String(Unescaped(StringInside(Seen)))))
    /\ toks = SubSeq(Seen, CloseAt(Seen, 2) + 1, Len(Seen))

\* C14 (as stated): a closed double-quoted string gives one String token:
\* the characters between the quotes, each backslash-quote pair replaced by
\* a quote and every other character (a backslash too) unchanged; the string
\* ends at the first quote that is not escaped.
C14_ClosedStringRead == GetTokRan /\ ClosedString(Seen) => StringRead

\* C14 (amended): the same, for a closed string in which a quote follows
\* every backslash; a string with a backslash that another character
\* follows gives no String token.
C14_EscapedStringRead ==
    /\ GetTokRan /\ ClosedString(Seen) /\ ~LoneBackslash(StringInside(Seen)) => StringRead
    /\ GetTokRan /\ ClosedString(Seen) /\ LoneBackslash(StringInside(Seen)) =>
          op = "string" /\ result.val = None

C14_Witness ==
    /\ GetTokRan /\ Seen = <<"\"", "\\", "\"", "\"">>
    /\ result = Ok(Some(String(<<"\"">>))) /\ toks = << >>

\* q starts with a quote and a plain character (not the backslash).
PlainCharOpen(q) == Len(q) >= 2 /\ q[1] = "'" /\ q[2] # "\\"

\* q starts with a quote and the escaped quote.
EscapedCharOpen(q) == Len(q) >= 3 /\ q[1] = "'" /\ q[2] = "\\" /\ q[3] = "'"

\* Where the closing quote of the literal q starts with should be, and
\* the character the literal stands for.
CharCloseAt(q) == IF EscapedCharOpen(q) THEN 4 ELSE 3
CharOf(q) == IF EscapedCharOpen(q) THEN "'" ELSE q[2]

CharClosed(q) == Len(q) >= CharCloseAt(q) /\ q[CharCloseAt(q)] = "'"

\* C15: on a quote, one character c (or backslash-quote, for the quote
\* character) and a closing quote, get_tok answers Char(c) and removes
\* exactly these characters; when the closing quote is not there, the
\* matcher aborts with "Unclosed character" and no Char token is produced.
C15_CharLiteralRead ==
    GetTokRan /\ (PlainCharOpen(Seen) \/ EscapedCharOpen(Seen)) =>
        /\ op = "char"
        /\ CharClosed(Seen) =>
              /\ result = Ok(Some(Char(CharOf(Seen))))
              /\ toks = SubSeq(Seen, CharCloseAt(Seen) + 1, Len(Seen))
        /\ ~CharClosed(Seen) =>
              /\ pc = "panic"
              /\ result = Err(UnclosedChar)
              /\ result.val = None

C15_Witness ==
    /\ GetTokRan /\ EscapedCharOpen(Seen) /\ CharClosed(Seen)
    /\ result = Ok(Some(Char("'"))) /\ toks = << >> /\ Len(input) = 4

Openers == {"(", "[", "{"}
Closers == {")", "]", "}"}

CloserOf(c) == CASE c = "(" -> ")" [] c = "[" -> "]" [] c = "{" -> "}"

OpenerOf(d) ==
    CASE d = "Parenthesis" -> "(" [] d = "Bracket" -> "[" [] d = "Brace" -> "{"

\* The delimiters of s from position i on are nested and matched; stack
\* holds the closers still awaited, innermost first.
RECURSIVE Nested(_, _, _)
Nested(s, i, stack) ==
    IF i > Len(s) THEN stack = << >>
    ELSE IF s[i] \in Openers THEN Nested(s, i + 1, <<CloserOf(s[i])>> \o stack)
    ELSE IF s[i] \in Closers
    THEN stack # << >> /\ Head(stack) = s[i] /\ Nested(s, i + 1, Tail(stack))
    ELSE Nested(s, i + 1, stack)

\* s is made of delimiters, whitespace, letters, '_' and '+' only: its
\* tokens are identifiers, the punctuation '+' and groups.
GroupText(s) ==
    \A i \in 1..Len(s) :
        s[i] \in Openers \cup Closers \cup WhiteSpace \cup Letters \cup {"_", "+"}

HasDelimiter(s) == \E i \in 1..Len(s) : s[i] \in Openers

NoSpace(s) == SelectSeq(s, LAMBDA c : c \notin WhiteSpace)

\* The characters of the tokens ts, a group between its pair's delimiters.
RECURSIVE Render(_)
Render(ts) ==
    IF ts = << >> THEN << >>
    ELSE (CASE Head(ts).type = "Group" ->
                 <<OpenerOf(Head(ts).delim)>> \o Render(Head(ts).toks)
                     \o <<CloserOf(OpenerOf(Head(ts).delim))>>
            [] Head(ts).type = "Ident" -> Head(ts).text
            [] Head(ts).type = "Punct" -> <<Head(ts).ch>>)
         \o Render(Tail(ts))

\* C16: for a text whose delimiters are nested and matched, tokenize
\* returns (it does not abort), and what it returns is one Group per
\* delimiter pair, of the pair's kind, holding the tokens between the pair in
\* order, with the other tokens around it at their own level: written out
\* again, the tokens give the text without its whitespace.
C16_GroupPerDelimiterPair ==
    GroupText(input) /\ HasDelimiter(input) /\ Nested(input, 1, << >>) =>
        /\ pc # "panic"
        /\ pc = "done" /\ first = None => Render(result.val) = NoSpace(input)

----------------------------------------------------------------------------
(* Claims about collect and the primitives *)

InCollect == op = "collect" /\ pc # "idle"

\* C17: collect calls scan while the queue is not empty; a scan call that
\* returns Ok(Some(v)) has removed at least one element and v is added to
\* the results; a scan call that returns Ok(None) or an empty queue ends
\* collect with the results so far, in call order; a scan call that returns
\* Err ends collect with that error; and every collect call ends.
C17_CollectGathersScans ==
    /\ [](InCollect => Len(res) + Len(toks) <= Len(input))
    /\ [][InCollect /\ pc = "collect" =>
            IF IsDone(toks)
            THEN pc' = "idle" /\ result' = Ok(res) /\ toks' = toks
            ELSE pc' = "scan" /\ toks' = toks /\ res' = res /\ before' = toks]_vars
    /\ [][InCollect /\ pc = "scan" /\ scanret' # None =>
            /\ ~scanret'[1].ok => pc' = "idle" /\ result' = Err(scanret'[1].err)
            /\ scanret'[1].ok /\ scanret'[1].val = None =>
                  pc' = "idle" /\ result' = Ok(res)
            /\ scanret'[1].ok /\ scanret'[1].val # None =>
                  /\ pc' = "collect" /\ res' = Append(res, scanret'[1].val[1])
                  /\ Len(toks') < Len(before)]_vars
    /\ [][InCollect /\ pc = "scan" /\ scanret' = None => pc' = "scan" /\ res' = res]_vars
    /\ InCollect ~> (op = "collect" /\ pc = "idle")

C17_Witness ==
    /\ op = "collect" /\ pc = "idle" /\ result.ok /\ Len(result.val) = 2
    /\ result.val[1] # result.val[2] /\ toks # << >> /\ scanret = Some(Ok(None))

\* A primitive named name returns in this step.
Returned(name) == impl = "Scanner" /\ pc = "idle" /\ pc' = "idle" /\ op' = name

\* C18: take and transform remove the front element, and return it (its
\* image), exactly when it exists and the predicate (function) accepts it;
\* otherwise they leave the queue as it is and return nothing.  take_while
\* removes and returns the longest leading run of accepted elements, so
\* the first rejected element stays at the front.  peek, test and is_done
\* leave the queue (the cursor) as it is.
C18_PrimitivesFrame ==
    /\ [][Returned("take") =>
            IF toks # << >> /\ Head(toks) \in arg'.pred[1]
            THEN toks' = Tail(toks) /\ result' = Ok(Some(Head(toks)))
            ELSE toks' = toks /\ result' = Ok(None)]_vars
    /\ [][Returned("transform") =>
            IF toks # << >> /\ arg'.fn[1][Head(toks)] # None
            THEN toks' = Tail(toks) /\ result' = Ok(arg'.fn[1][Head(toks)])
            ELSE toks' = toks /\ result' = Ok(None)]_vars
    /\ [][Returned("take_while") =>
            /\ result' = Ok(SubSeq(toks, 1, RunLen(toks, 1, arg'.pred[1])))
            /\ toks' = SubSeq(toks, RunLen(toks, 1, arg'.pred[1]) + 1, Len(toks))
            /\ toks' # << >> => Head(toks') \notin arg'.pred[1]]_vars
    /\ [][pc = "idle" /\ pc' = "idle" /\ op' \in {"peek", "test", "is_done"} =>
            toks' = toks /\ cursor' = cursor]_vars

C18_Witness ==
    /\ op = "take_while" /\ pc = "idle" /\ Len(result.val) = 2 /\ toks # << >>
    /\ arg.pred # None /\ Head(toks) \notin arg.pred[1] /\ arg.pred[1] # {}

\* C19: TokenScanner::scan and Scanner::scan, called on the same input with
\* the same matcher, return together, with the same result (the same value,
\* Ok or Err alike), in every call of a sequence of scan calls; and the
\* elements at and after the cursor of the one are the queue of the other.
C19_ScansAgree ==
    impl = "Both" =>
        /\ Rest(input, cursor) = toks
        /\ request = tokscan.request /\ require = tokscan.require
        /\ pc = "scan" => scanret = None /\ ~tokscan.done
        /\ pc = "idle" /\ op = "scan" =>
              /\ tokscan.done /\ scanret = Some(tokscan.ret)
              /\ result = tokscan.ret /\ result.ok = tokscan.ret.ok

C19_Witness ==
    /\ impl = "Both" /\ pc = "idle" /\ op = "scan" /\ EndedByReject
    /\ Len(hist) = 2 /\ hist[1].act.kind = "Request" /\ before # input
    /\ cursor = Len(input) - 1 /\ toks = Rest(input, cursor) /\ tokscan.ret = Ok(request)

\* C20: every numeric literal whose value is a value of the integer type,
\* the least one (written '-' and the digits of its magnitude) too, gives
\* Number of exactly that value; no conversion on the way to it fails.
C20_WholeRangeRead ==
    GetTokRan /\ LitLen(Seen) > 0
              /\ LitValue(SubSeq(Seen, 1, LitLen(Seen))) \in MinI64..MaxI64 =>
        /\ op = "number"
        /\ pc # "panic"
        /\ result = Ok(Some(Number(LitValue(SubSeq(Seen, 1, LitLen(Seen))))))

====
